---- MODULE Spec2Model ----
(***************************************************************************)
(* Key estimation of src/src/python/harmonic-analyzer.py (KeyEstimator).   *)
(*                                                                         *)
(* Numbers.  The code works on float64 arrays.  The model computes the     *)
(* same expressions in exact real arithmetic:                              *)
(*   - an array is a record [shape, c, rad]: the flat buffer c of integers *)
(*     and one radicand rad, the element values being c[i] / sqrt(rad);    *)
(*     rad = 0 marks an array of NaN (0/0);                                *)
(*   - a scalar is a record [s, p, q]: the value s * sqrt(p / q), with s   *)
(*     the sign and p, q naturals of arbitrary size (sequences of limbs).  *)
(* Rounding of float64 operations is not modelled.                         *)
(***************************************************************************)
EXTENDS Integers, Sequences, FiniteSets, TLC

(***************************************************************************)
(* Naturals of arbitrary size: little-endian limbs, no leading zero limb.  *)
(***************************************************************************)
Base == 100 * 100

RECURSIVE BNat(_)
BNat(n) == IF n = 0 THEN <<>> ELSE <<n % Base>> \o BNat(n \div Base)

RECURSIVE BAddC(_, _, _)
BAddC(a, b, carry) ==
  IF a = <<>> /\ b = <<>>
    THEN (IF carry = 0 THEN <<>> ELSE <<carry>>)
    ELSE LET x == IF a = <<>> THEN 0 ELSE Head(a)
             y == IF b = <<>> THEN 0 ELSE Head(b)
             t == x + y + carry
         IN  <<t % Base>> \o BAddC(IF a = <<>> THEN a ELSE Tail(a),
                                   IF b = <<>> THEN b ELSE Tail(b),
                                   t \div Base)

BAdd(a, b) == BAddC(a, b, 0)

RECURSIVE BMulLimb(_, _, _)
BMulLimb(a, d, carry) ==
  IF a = <<>>
    THEN (IF carry = 0 THEN <<>> ELSE <<carry>>)
    ELSE LET t == Head(a) * d + carry
         IN  <<t % Base>> \o BMulLimb(Tail(a), d, t \div Base)

BShift(a) == IF a = <<>> THEN a ELSE <<0>> \o a

RECURSIVE BMul(_, _)
BMul(a, b) ==
  IF a = <<>> \/ b = <<>> THEN <<>>
  ELSE IF Head(a) = 0 THEN BShift(BMul(Tail(a), b))
  ELSE BAdd(BMulLimb(b, Head(a), 0), BShift(BMul(Tail(a), b)))

\* -1, 0, 1 as a < b, a = b, a > b
RECURSIVE BCmpFrom(_, _, _)
BCmpFrom(a, b, i) ==
  IF i = 0 THEN 0
  ELSE IF a[i] < b[i] THEN -1
  ELSE IF a[i] > b[i] THEN 1
  ELSE BCmpFrom(a, b, i - 1)

BCmp(a, b) ==
  IF Len(a) < Len(b) THEN -1
  ELSE IF Len(a) > Len(b) THEN 1
  ELSE BCmpFrom(a, b, Len(a))

(***************************************************************************)
(* Integer helpers.                                                        *)
(***************************************************************************)
Abs(n) == IF n < 0 THEN -n ELSE n
Sign(n) == IF n < 0 THEN -1 ELSE IF n = 0 THEN 0 ELSE 1

RECURSIVE GCD(_, _)
GCD(a, b) == IF b = 0 THEN a ELSE GCD(b, a % b)

RECURSIVE SumSeq(_)
SumSeq(s) == IF s = <<>> THEN 0 ELSE Head(s) + SumSeq(Tail(s))

RECURSIVE SumSq(_)
SumSq(s) == IF s = <<>> THEN 0 ELSE Head(s) * Head(s) + SumSq(Tail(s))

RECURSIVE GCDSeq(_)
GCDSeq(s) == IF s = <<>> THEN 0 ELSE GCD(Abs(Head(s)), GCDSeq(Tail(s)))

(***************************************************************************)
(* Scalars  s * sqrt(p / q).                                               *)
(***************************************************************************)
\* sqrt(a / b) for integers a >= 0, b > 0
SqrtOfRatio(a, b) ==
  LET g == GCD(a, b)
  IN  [s |-> Sign(a), p |-> BNat(a \div g), q |-> BNat(b \div g)]

\* numpy true division of float scalars (b # 0)
Divide(a, b) ==
  [s |-> a.s * b.s, p |-> BMul(a.p, b.q), q |-> BMul(a.q, b.p)]

\* -1, 0, 1 as |a| < |b|, |a| = |b|, |a| > |b|
MagCmp(a, b) ==
  IF a.q = b.q THEN BCmp(a.p, b.p)
  ELSE BCmp(BMul(a.p, b.q), BMul(b.p, a.q))

\* a < b on reals
Less(a, b) ==
  IF a.s # b.s THEN a.s < b.s
  ELSE IF a.s = 0 THEN FALSE
  ELSE IF a.s = 1 THEN MagCmp(a, b) = -1
  ELSE MagCmp(a, b) = 1

(***************************************************************************)
(* The class body: names, reference profiles (in hundredths).              *)
(***************************************************************************)
ModeOrder ==
  <<"ionian", "dorian", "phrygian", "lydian", "mixolydian", "aeolian", "locrian">>

Modes == {ModeOrder[i] : i \in 1..Len(ModeOrder)}

note_names_simple ==
  <<"C", "C#", "D", "D#", "E", "F", "F#", "G", "G#", "A", "A#", "B">>

NumPitch == Len(note_names_simple)

Hundredths == 100 * 100

RawWeights(mode) ==
  CASE mode = "ionian"     -> <<635, 223, 348, 233, 438, 409, 252, 519, 239, 366, 229, 288>>
    [] mode = "dorian"     -> <<633, 268, 352, 538, 260, 353, 269, 166, 369, 259, 359, 475>>
    [] mode = "phrygian"   -> <<659, 252, 368, 506, 103, 460, 352, 535, 354, 490, 175, 180>>
    [] mode = "lydian"     -> <<650, 233, 352, 268, 359, 259, 366, 517, 363, 259, 270, 333>>
    [] mode = "mixolydian" -> <<647, 237, 350, 252, 364, 250, 358, 264, 368, 250, 260, 338>>
    [] mode = "aeolian"    -> <<639, 255, 377, 398, 271, 391, 292, 229, 370, 327, 316, 620>>
    [] mode = "locrian"    -> <<617, 274, 398, 269, 366, 368, 290, 242, 260, 270, 288, 659>>

\* np.array([...]) of a list of numbers given in hundredths
NpArray(v) == [shape |-> <<Len(v)>>, c |-> v, rad |-> Hundredths]

ClassModeWeights == [m \in Modes |-> NpArray(RawWeights(m))]

\* the empty dict
EmptyDict == [m \in {} |-> 0]

(***************************************************************************)
(* Arrays.  A 1-D array holds its elements in c.  A 2-D array built by     *)
(* circulant() holds the first column in c: element (i, j), counted from   *)
(* 0, is c[(i - j) mod n].                                                 *)
(***************************************************************************)
At(a, i, j) == a.c[((i - j) % a.shape[1]) + 1]

\* the largest t with t | g and t^2 | r: v / sqrt(r) = (v / t) / sqrt(r / t^2)
CommonFactor(g, r) ==
  IF g = 0 THEN 1
  ELSE LET ts == {t \in 1..g : g % t = 0 /\ r % (t * t) = 0}
       IN  CHOOSE t \in ts : \A u \in ts : u <= t

\* population z-score of a vector: (v - mean) / std, std with ddof = 0
ZScoreVec(v) ==
  LET n  == Len(v)
      S  == SumSeq(v)
      cc == [i \in 1..n |-> n * v[i] - S]
      N  == n * SumSq(v) - S * S
      t  == CommonFactor(GCDSeq(cc), N)
  IN  IF N = 0
        THEN [c |-> [i \in 1..n |-> 0], rad |-> 0]
        ELSE [c |-> [i \in 1..n |-> cc[i] \div t], rad |-> N \div (t * t)]

\* scipy.stats.zscore(a), axis 0.  The columns of a circulant matrix are the
\* rotations of its first column, so z-scoring them z-scores the first column.
ZScore(a) ==
  LET z == ZScoreVec(a.c)
  IN  [shape |-> a.shape, c |-> z.c, rad |-> z.rad]

\* scipy.linalg.norm(a) checks its argument with asarray_chkfinite
NormRaises(a) == a.rad = 0

\* scipy.linalg.norm(a): 2-norm of a vector, Frobenius norm of a matrix
Norm(a) ==
  IF Len(a.shape) = 1
    THEN SqrtOfRatio(SumSq(a.c), a.rad)
    ELSE SqrtOfRatio(a.shape[1] * SumSq(a.c), a.rad)

\* row-major ravel of a 2-D circulant array
Ravel(a) ==
  LET n == a.shape[1]
  IN  [k \in 1..(n * n) |-> At(a, (k - 1) \div n, (k - 1) % n)]

\* scipy.linalg.circulant(a).  A 1-D argument is the first column.  A 2-D
\* argument is raveled into one first column, or taken as a batch of first
\* columns, as the installed scipy does.
Circulant(a, batch) ==
  IF Len(a.shape) = 1
    THEN [shape |-> <<a.shape[1], a.shape[1]>>, c |-> a.c, rad |-> a.rad]
  ELSE IF batch
    THEN [shape |-> <<a.shape[1], a.shape[2], a.shape[2]>>, c |-> Ravel(a), rad |-> a.rad]
    ELSE [shape |-> <<a.shape[1] * a.shape[2], a.shape[1] * a.shape[2]>>,
          c |-> Ravel(a), rad |-> a.rad]

(***************************************************************************)
(* KeyEstimator.__call__, statement by statement.                          *)
(***************************************************************************)
\* line 68 without the division by x_norm
QuotientNoXNorm(sum, radw, radx, norm_w, x_norm) ==
  Divide([s |-> Sign(sum),
          p |-> BMul(BNat(Abs(sum)), BNat(Abs(sum))),
          q |-> BMul(BNat(radw), BNat(radx))],
         norm_w)

\* (sum / sqrt(radw * radx)) / norm_w / x_norm: one entry of line 68
Quotient(sum, radw, radx, norm_w, x_norm) ==
  Divide(Divide([s |-> Sign(sum),
                 p |-> BMul(BNat(Abs(sum)), BNat(Abs(sum))),
                 q |-> BMul(BNat(radw), BNat(radx))],
                norm_w),
         x_norm)

RECURSIVE DotRow(_, _, _, _)
\* entry j of weights.dot(x), the transposition left out
DotRow(weights, x, j, n) ==
  IF n = 0 THEN 0
  ELSE At(weights, j, n - 1) * x.c[n] + DotRow(weights, x, j, n - 1)

RECURSIVE DotColumn(_, _, _, _)
\* sum over i < n of weights[i][j] * x[i]: entry j of weights.T.dot(x)
DotColumn(weights, x, j, n) ==
  IF n = 0 THEN 0
  ELSE At(weights, n - 1, j) * x.c[n] + DotColumn(weights, x, j, n - 1)

\* weights.T.dot(x) raises ValueError when the shapes are not aligned
DotRaises(weights, x) == weights.shape[1] # x.shape[1]

\* weights.T.dot(x) / norm_w / x_norm for a 2-D weights: a list of scalars
Coefficients(weights, norm_w, x, x_norm) ==
  LET n == weights.shape[1]
  IN  [j \in 1..n |->
         Quotient(DotColumn(weights, x, j - 1, n), weights.rad, x.rad, norm_w, x_norm)]

RECURSIVE DotBatch(_, _, _, _, _)
\* for a 3-D weights (a batch of circulants, slice i generated by row i of the
\* raveled buffer): sum over i < n of weights[i][j][k] * x[i]
DotBatch(weights, x, j, k, n) ==
  IF n = 0 THEN 0
  ELSE weights.c[(n - 1) * weights.shape[2] + ((j - k) % weights.shape[2]) + 1] * x.c[n]
       + DotBatch(weights, x, j, k, n - 1)

\* weights.T.dot(x) / norm_w / x_norm for a 3-D weights, flattened row-major:
\* entry (k, j) of the result is the sum over i of weights[i][j][k] * x[i]
CoefficientsBatch(weights, norm_w, x, x_norm) ==
  LET n == weights.shape[2]
  IN  [f \in 1..(n * n) |->
         Quotient(DotBatch(weights, x, (f - 1) % n, (f - 1) \div n, weights.shape[1]),
                  weights.rad, x.rad, norm_w, x_norm)]

RECURSIVE ArgMaxLastFrom(_, _, _)
ArgMaxLastFrom(s, i, best) ==
  IF i > Len(s) THEN best
  ELSE ArgMaxLastFrom(s, i + 1, IF Less(s[i], s[best]) THEN best ELSE i)

\* the index of the last maximal entry instead of the first
ArgMaxLast(s) == ArgMaxLastFrom(s, 2, 1) - 1

RECURSIVE ArgMaxFrom(_, _, _)
ArgMaxFrom(s, i, best) ==
  IF i > Len(s) THEN best
  ELSE ArgMaxFrom(s, i + 1, IF Less(s[best], s[i]) THEN i ELSE best)

\* np.argmax: the index, counted from 0, of the first maximal entry
ArgMax(s) == ArgMaxFrom(s, 2, 1) - 1

\* line 75 with the two display names exchanged
ModeSimpleSwapped(mode) ==
  IF mode = "ionian" THEN "minor" ELSE IF mode = "aeolian" THEN "major" ELSE mode

\* line 75
ModeSimple(mode) ==
  IF mode = "ionian" THEN "major" ELSE IF mode = "aeolian" THEN "minor" ELSE mode

\* f"{key} {mode_simple}"
FullName(key, mode_simple) == key \o " " \o mode_simple

NoScalar == [s |-> 0, p |-> <<>>, q |-> <<>>]

\* lines 68-85, one iteration of the loop: the exception raised ("" if none)
\* and the estimate appended
ModeBody(mode, weights, norm_w, x, x_norm) ==
  IF DotRaises(weights, x) THEN [exc |-> "ValueError", est |-> <<>>]
  ELSE
    LET batch == Len(weights.shape) = 3
        coefficients == IF batch THEN CoefficientsBatch(weights, norm_w, x, x_norm)
                        ELSE Coefficients(weights, norm_w, x, x_norm)
        best_key_idx == ArgMax(coefficients)
    IN  IF best_key_idx >= (IF batch THEN weights.shape[2] ELSE NumPitch)
          THEN [exc |-> "IndexError", est |-> <<>>]
        ELSE IF batch
          THEN [exc |-> "TypeError", est |-> <<>>]
        ELSE
          [exc |-> "",
           est |-> <<[mode         |-> mode,
                      mode_simple  |-> ModeSimple(mode),
                      key_index    |-> best_key_idx,
                      key          |-> note_names_simple[best_key_idx + 1],
                      correlation  |-> coefficients[best_key_idx + 1],
                      full_name    |-> FullName(note_names_simple[best_key_idx + 1],
                                                ModeSimple(mode)),
                      coefficients |-> coefficients]>>]

RECURSIVE InsertDescending(_, _)
\* e goes before the first entry whose correlation is less than e's
InsertDescending(sorted, e) ==
  IF sorted = <<>> THEN <<e>>
  ELSE IF Less(Head(sorted).correlation, e.correlation) THEN <<e>> \o sorted
  ELSE <<Head(sorted)>> \o InsertDescending(Tail(sorted), e)

RECURSIVE InsertAscending(_, _)
InsertAscending(sorted, e) ==
  IF sorted = <<>> THEN <<e>>
  ELSE IF Less(e.correlation, Head(sorted).correlation) THEN <<e>> \o sorted
  ELSE <<Head(sorted)>> \o InsertAscending(Tail(sorted), e)

RECURSIVE SortAscendingFrom(_, _, _)
SortAscendingFrom(list, i, sorted) ==
  IF i > Len(list) THEN sorted
  ELSE SortAscendingFrom(list, i + 1, InsertAscending(sorted, list[i]))

\* list.sort(key=...) with reverse=True left out
SortEstimatesAscending(list) == SortAscendingFrom(list, 1, <<>>)

RECURSIVE Reverse(_)
Reverse(list) == IF list = <<>> THEN <<>> ELSE Reverse(Tail(list)) \o <<Head(list)>>

\* sorted(list, key=...)[::-1]: ascending, then reversed
SortEstimatesReversed(list) == Reverse(SortAscendingFrom(list, 1, <<>>))

RECURSIVE SortFrom(_, _, _)
SortFrom(list, i, sorted) ==
  IF i > Len(list) THEN sorted
  ELSE SortFrom(list, i + 1, InsertDescending(sorted, list[i]))

\* list.sort(key=lambda x: x['correlation'], reverse=True): stable, equal keys
\* keep their order
SortEstimates(list) == SortFrom(list, 1, <<>>)

(***************************************************************************)
(* State.                                                                  *)
(***************************************************************************)
VARIABLES
  mode_weights,       \* KeyEstimator.mode_weights, the class attribute
  mode_weight_norms,  \* KeyEstimator.mode_weight_norms, the class attribute
  instances,          \* the KeyEstimator objects constructed so far
  frame               \* per task: the locals of its call of the estimator

vars == <<mode_weights, mode_weight_norms, instances, frame>>

Tasks == {"t1", "t2"}

NoArray == [shape |-> <<>>, c |-> <<>>, rad |-> 0]

NoReturn == [full_name |-> "", correlation |-> NoScalar, all_estimates |-> <<>>]

IdleFrame ==
  [pc |-> "idle", x |-> NoArray, zx |-> NoArray, x_norm |-> NoScalar, i |-> 0,
   all_estimates |-> <<>>, ret |-> NoReturn, exc |-> "",
   key |-> "", key_confidence |-> NoScalar, estimates |-> <<>>]

\* entry into __call__ with argument x
Enter(x) == [IdleFrame EXCEPT !.pc = "zscore", !.x = x]

\* line 58
StepZScore(f) == [f EXCEPT !.zx = ZScore(f.x), !.pc = "norm"]

\* line 59
StepNorm(f) ==
  IF NormRaises(f.zx)
    THEN [f EXCEPT !.exc = "ValueError", !.pc = "raised"]
    ELSE [f EXCEPT !.x_norm = Norm(f.zx), !.i = 1, !.pc = "loop"]

\* lines 67-85: the iteration for the f.i-th key of mode_weights
StepLoop(f, mw, mwn) ==
  LET mode == ModeOrder[f.i]
      r    == ModeBody(mode, mw[mode], mwn[mode], f.zx, f.x_norm)
  IN  IF r.exc # ""
        THEN [f EXCEPT !.exc = r.exc, !.pc = "raised"]
        ELSE [f EXCEPT !.all_estimates = f.all_estimates \o r.est,
                       !.i = f.i + 1,
                       !.pc = IF f.i = Len(ModeOrder) THEN "sort" ELSE "loop"]

\* line 88
StepSort(f) == [f EXCEPT !.all_estimates = SortEstimates(f.all_estimates), !.pc = "return"]

\* lines 95-104
StepReturn(f) ==
  LET best_estimate == f.all_estimates[1]
  IN  [f EXCEPT !.ret = [full_name     |-> best_estimate.full_name,
                         correlation   |-> best_estimate.correlation,
                         all_estimates |-> f.all_estimates],
                !.pc = "returned"]

Running == {"zscore", "norm", "loop", "sort", "return"}

\* one statement of __call__ against the class attributes mw, mwn
Step(f, mw, mwn) ==
  CASE f.pc = "zscore" -> StepZScore(f)
    [] f.pc = "norm"   -> StepNorm(f)
    [] f.pc = "loop"   -> StepLoop(f, mw, mwn)
    [] f.pc = "sort"   -> StepSort(f)
    [] f.pc = "return" -> StepReturn(f)

RECURSIVE Run(_, _, _)
\* __call__ from f to its return or its exception
Run(f, mw, mwn) == IF f.pc \in Running THEN Run(Step(f, mw, mwn), mw, mwn) ELSE f

\* key_estimator(x), the whole call
CallEstimator(x, mw, mwn) == Run(Enter(x), mw, mwn)

(***************************************************************************)
(* Inputs.                                                                 *)
(***************************************************************************)
MaxNotes == 3
MaxLevel == 1

PitchClasses == 0..(NumPitch - 1)

\* np.roll(v, k)
Roll(v, k) == [i \in 1..Len(v) |-> v[((i - 1 - k) % Len(v)) + 1]]

\* energy 1 on the pitch classes of S, 0 elsewhere
Chord(S, n) == [i \in 1..n |-> IF (i - 1) \in S THEN 1 ELSE 0]

ChordSets == {S \in SUBSET PitchClasses : 1 <= Cardinality(S) /\ Cardinality(S) <= MaxNotes}

ChordInputs == {[shape |-> <<NumPitch>>, c |-> Chord(S, NumPitch), rad |-> 1] : S \in ChordSets}

ProfileInput(m, r) == NpArray(Roll(RawWeights(m), r))

ProfileInputs == {ProfileInput(m, r) : m \in Modes, r \in PitchClasses}

FlatInput(n, level) == [shape |-> <<n>>, c |-> [i \in 1..n |-> level], rad |-> 1]

FlatInputs == {FlatInput(NumPitch, level) : level \in 0..MaxLevel}

WrongLengths == {NumPitch - 1, NumPitch + 1}

WrongLengthInputs ==
  {[shape |-> <<n>>, c |-> Chord({k}, n), rad |-> 1] : n \in WrongLengths, k \in PitchClasses}
  \cup {FlatInput(n, level) : n \in WrongLengths, level \in 0..MaxLevel}

Inputs == ChordInputs \cup ProfileInputs \cup FlatInputs \cup WrongLengthInputs

(***************************************************************************)
(* Operations.                                                             *)
(***************************************************************************)
Init ==
  /\ mode_weights = ClassModeWeights
  /\ mode_weight_norms = EmptyDict
  /\ instances = {}
  /\ frame = [t \in Tasks |-> IdleFrame]

\* lines 51-55: KeyEstimator(), __post_init__
PostInit(batch) ==
  /\ mode_weights' =
       [m \in Modes |-> Circulant(ZScore(mode_weights[m]), batch)]
  /\ mode_weight_norms' =
       [m \in Modes |-> Norm(ZScore(mode_weights[m]))]

\* KeyEstimator(): the dataclass __init__ takes no field and runs __post_init__
Construct(name) ==
  /\ name \notin instances
  /\ \E batch \in BOOLEAN : PostInit(batch)
  /\ instances' = instances \cup {name}
  /\ UNCHANGED frame

\* line 108: key_estimator = KeyEstimator()
Singleton == Construct("key_estimator")

\* a call of an estimator object by task t, the whole call; every object reads
\* the class attributes
Call(t, x) ==
  /\ instances # {}
  /\ frame[t].pc = "idle"
  /\ frame' = [frame EXCEPT ![t] = CallEstimator(x, mode_weights, mode_weight_norms)]
  /\ UNCHANGED <<mode_weights, mode_weight_norms, instances>>

\* the caller of task t is done with what the call gave it; the locals are gone
Discard(t) ==
  /\ frame[t].pc \in {"returned", "raised"}
  /\ frame' = [frame EXCEPT ![t] = IdleFrame]
  /\ UNCHANGED <<mode_weights, mode_weight_norms, instances>>

Next ==
  \/ Singleton
  \/ \E x \in Inputs : Call("t1", x)
  \/ Discard("t1")

Spec == Init /\ [][Next]_vars

(***************************************************************************)
(* Properties of one call (specification Spec).                            *)
(***************************************************************************)
Ended(f) == f.pc \in {"returned", "raised"}

IsFlat(x) == \A i, j \in 1..Len(x.c) : x.c[i] = x.c[j]

ValidInput(x) == x.shape = <<NumPitch>> /\ ~IsFlat(x)

IsOne(a) == a.s = 1 /\ BCmp(a.p, a.q) = 0

WithinUnit(a) == a.s = 0 \/ BCmp(a.p, a.q) <= 0

\* the entry of list for mode (the list holds one)
EstimateFor(list, mode) ==
  list[CHOOSE i \in 1..Len(list) : list[i].mode = mode]

\* C1: for a valid input the call returns a list of 7 estimates, one per
\* mode, ordered by non-increasing correlation, and the best guess returned
\* is the first entry of that list.
C1_EstimateList ==
  \A t \in Tasks :
    (Ended(frame[t]) /\ ValidInput(frame[t].x)) =>
      LET f == frame[t]
          e == f.ret.all_estimates
      IN  /\ f.pc = "returned"
          /\ Len(e) = 7
          /\ \A m \in Modes : Cardinality({i \in 1..Len(e) : e[i].mode = m}) = 1
          /\ \A i \in 1..(Len(e) - 1) : ~Less(e[i].correlation, e[i + 1].correlation)
          /\ f.ret.full_name = e[1].full_name
          /\ f.ret.correlation = e[1].correlation

\* a valid input whose ranking is not the declaration order of the modes
C1_Witness ==
  /\ frame["t1"].pc = "returned"
  /\ ValidInput(frame["t1"].x)
  /\ frame["t1"].ret.all_estimates[1].mode = "locrian"
  /\ frame["t1"].ret.all_estimates[7].mode = "ionian"

\* C2: a flat 12-element input ends in the error FlatChromaVector and nothing
\* is returned.
C2_FlatRaisesFlatChromaVector ==
  \A t \in Tasks :
    (Ended(frame[t]) /\ frame[t].x.shape = <<NumPitch>> /\ IsFlat(frame[t].x)) =>
      /\ frame[t].pc = "raised"
      /\ frame[t].exc = "FlatChromaVector"
      /\ frame[t].ret = NoReturn

\* C3: an input whose length is not 12 ends in the error InvalidInputLength,
\* raised before the input is z-scored.
C3_LengthRejectedBeforeNormalization ==
  \A t \in Tasks :
    (Ended(frame[t]) /\ frame[t].x.shape # <<NumPitch>>) =>
      /\ frame[t].pc = "raised"
      /\ frame[t].exc = "InvalidInputLength"
      /\ frame[t].zx = NoArray

\* C5: with the input equal to mode m's profile rotated to tonic r, the
\* estimate for m has key index r and correlation 1, and every other rotation
\* of m has a smaller coefficient.
C5_ExactMatchRecovery ==
  \A t \in Tasks : \A m \in Modes : \A r \in PitchClasses :
    (frame[t].pc = "returned" /\ frame[t].x = ProfileInput(m, r)) =>
      LET est == EstimateFor(frame[t].ret.all_estimates, m)
      IN  /\ est.key_index = r
          /\ IsOne(est.correlation)
          /\ \A j \in PitchClasses :
               j # r => Less(est.coefficients[j + 1], est.correlation)

\* the aeolian profile rotated to tonic E has been estimated
C5_Witness ==
  /\ frame["t1"].pc = "returned"
  /\ frame["t1"].x = ProfileInput("aeolian", 4)
  /\ EstimateFor(frame["t1"].ret.all_estimates, "aeolian").key_index = 4

DisplayMode(m) == CASE m = "ionian" -> "major" [] m = "aeolian" -> "minor" [] OTHER -> m

\* C6: with the input equal to mode m's profile rotated to tonic r, the best
\* guess is mode m at key r with its display fields, and every other mode's
\* best correlation is smaller; the ionian profile unrotated gives C major,
\* the aeolian profile rotated by 4 gives E minor.
C6_BestGuessIsMatchingMode ==
  \A t \in Tasks : \A m \in Modes : \A r \in PitchClasses :
    (frame[t].pc = "returned" /\ frame[t].x = ProfileInput(m, r)) =>
      LET e    == frame[t].ret.all_estimates
          best == e[1]
      IN  /\ best.mode = m
          /\ best.key_index = r
          /\ best.key = note_names_simple[r + 1]
          /\ best.mode_simple = DisplayMode(m)
          /\ \A i \in 2..Len(e) : Less(e[i].correlation, best.correlation)
          /\ (m = "ionian" /\ r = 0) =>
               (best.mode_simple = "major" /\ best.key = "C"
                /\ best.full_name = "C major" /\ frame[t].ret.full_name = "C major")
          /\ (m = "aeolian" /\ r = 4) =>
               (best.mode_simple = "minor" /\ best.key = "E"
                /\ best.full_name = "E minor" /\ frame[t].ret.full_name = "E minor")

\* the ionian profile unrotated has been estimated as C major
C6_Witness ==
  /\ frame["t1"].pc = "returned"
  /\ frame["t1"].x = ProfileInput("ionian", 0)
  /\ frame["t1"].ret.full_name = "C major"

\* C8: for a valid input every coefficient of every mode lies in [-1, 1].
C8_CoefficientsWithinUnit ==
  \A t \in Tasks :
    (frame[t].pc = "returned" /\ ValidInput(frame[t].x)) =>
      \A i \in 1..Len(frame[t].ret.all_estimates) :
        LET co == frame[t].ret.all_estimates[i].coefficients
        IN  Len(co) = NumPitch /\ \A j \in 1..Len(co) : WithinUnit(co[j])

\* a valid input with a coefficient equal to 1, a negative one and one
\* strictly between 0 and 1
C8_Witness ==
  /\ frame["t1"].pc = "returned"
  /\ ValidInput(frame["t1"].x)
  /\ LET co == frame["t1"].ret.all_estimates[1].coefficients
     IN  /\ \E j \in 1..Len(co) : IsOne(co[j])
         /\ \E j \in 1..Len(co) : co[j].s = -1
         /\ \E j \in 1..Len(co) : co[j].s = 1 /\ BCmp(co[j].p, co[j].q) < 0

(***************************************************************************)
(* Rotation of the input (specification SpecRot): task t1 calls the        *)
(* estimator on x, task t2 on np.roll(x, k).                               *)
(***************************************************************************)
MaxRotNotes == 2

RootedChordSets ==
  {S \in SUBSET PitchClasses : 0 \in S /\ Cardinality(S) <= MaxRotNotes}

RotInputs ==
  {[shape |-> <<NumPitch>>, c |-> Chord(S, NumPitch), rad |-> 1] : S \in RootedChordSets}
  \cup {ProfileInput(m, 0) : m \in Modes}

RollArray(x, k) == [x EXCEPT !.c = Roll(x.c, k)]

CallRotated(k) ==
  /\ frame["t1"].pc = "returned"
  /\ Call("t2", RollArray(frame["t1"].x, k))

NextRot ==
  \/ Singleton
  \/ \E x \in RotInputs : Call("t1", x)
  \/ \E k \in PitchClasses : CallRotated(k)

SpecRot == Init /\ [][NextRot]_vars

\* the rotations (counted from 0) at which the estimate's coefficient is maximal
MaximalRotations(est) ==
  {j \in PitchClasses : ~Less(est.coefficients[j + 1], est.correlation)}

MinOf(S) == CHOOSE a \in S : \A b \in S : a <= b

BothReturned == frame["t1"].pc = "returned" /\ frame["t2"].pc = "returned"

\* C4 as stated: for x rotated by k every mode's estimate has the same top
\* correlation, the coefficient vector rotated by k, and the best key index
\* shifted by k mod 12, ties among rotations included.
C4_RotationShiftsBestKey ==
  BothReturned =>
    \A k \in PitchClasses : \A m \in Modes :
      frame["t2"].x = RollArray(frame["t1"].x, k) =>
        LET a == EstimateFor(frame["t1"].ret.all_estimates, m)
            b == EstimateFor(frame["t2"].ret.all_estimates, m)
        IN  /\ b.correlation = a.correlation
            /\ b.coefficients = Roll(a.coefficients, k)
            /\ b.key_index = (a.key_index + k) % NumPitch

\* C4 amended: same top correlation and rotated coefficient vector; the best
\* key index is the lowest of the maximal rotations of x shifted by k mod 12,
\* which is (best key index for x + k) mod 12 when the maximum is attained at
\* one rotation only.
C4_RotationCovariance ==
  BothReturned =>
    \A k \in PitchClasses : \A m \in Modes :
      frame["t2"].x = RollArray(frame["t1"].x, k) =>
        LET a == EstimateFor(frame["t1"].ret.all_estimates, m)
            b == EstimateFor(frame["t2"].ret.all_estimates, m)
            M == MaximalRotations(a)
        IN  /\ b.correlation = a.correlation
            /\ b.coefficients = Roll(a.coefficients, k)
            /\ b.key_index = MinOf({(j + k) % NumPitch : j \in M})
            /\ Cardinality(M) = 1 => b.key_index = (a.key_index + k) % NumPitch

\* a rotated call whose input has a unique maximal rotation and whose best key
\* wrapped around past B
C4_Witness ==
  /\ BothReturned
  /\ frame["t2"].x # frame["t1"].x
  /\ LET a == EstimateFor(frame["t1"].ret.all_estimates, "ionian")
         b == EstimateFor(frame["t2"].ret.all_estimates, "ionian")
     IN  /\ Cardinality(MaximalRotations(a)) = 1
         /\ b.key_index < a.key_index

(***************************************************************************)
(* The class used as a library (specification SpecLib): KeyEstimator() may *)
(* be called again.                                                        *)
(***************************************************************************)
EstimatorNames == {"key_estimator", "other"}

LibInputs == ProfileInputs \cup FlatInputs \cup WrongLengthInputs

NextLib ==
  \/ \E name \in EstimatorNames : Construct(name)
  \/ \E x \in LibInputs : Call("t1", x)
  \/ Discard("t1")

SpecLib == Init /\ [][NextLib]_vars

\* the table as the first construction leaves it
BuiltWeights == [m \in Modes |-> Circulant(ZScore(NpArray(RawWeights(m))), FALSE)]

BuiltNorms == [m \in Modes |-> Norm(ZScore(NpArray(RawWeights(m))))]

\* C7: once an estimator has been constructed, each mode's entry is the
\* circulant matrix of the z-scored original weights with its norm, and no
\* later construction or call changes it.
C7_TableBuiltOnce ==
  instances # {} => (mode_weights = BuiltWeights /\ mode_weight_norms = BuiltNorms)

(***************************************************************************)
(* Concurrent calls (specification SpecConc): each task runs               *)
(* message_handler, its call of the estimator one statement at a time.     *)
(***************************************************************************)
ConcInputs ==
  { [shape |-> <<NumPitch>>, c |-> Chord({0, 4, 7}, NumPitch), rad |-> 1],
    ProfileInput("aeolian", 4),
    FlatInput(NumPitch, 0) }

\* 0.0
Zero == [s |-> 0, p |-> <<>>, q |-> <<1>>]

\* message_handler, lines 114-149: avg_chroma is x, the call is entered
Receive(t, x) ==
  /\ instances # {}
  /\ frame[t].pc = "idle"
  /\ frame' = [frame EXCEPT ![t] = Enter(x)]
  /\ UNCHANGED <<mode_weights, mode_weight_norms, instances>>

\* a*b on scalars
Multiply(a, b) == [s |-> a.s * b.s, p |-> BMul(a.p, b.p), q |-> BMul(a.q, b.q)]

\* one statement of the call that also folds x_norm into the shared norm of
\* the mode it handles (mode_weight_norms[mode] *= x_norm)
StepCallFoldingNorm(t) ==
  /\ frame[t].pc \in Running
  /\ frame' = [frame EXCEPT ![t] = Step(frame[t], mode_weights, mode_weight_norms)]
  /\ mode_weight_norms' =
       IF frame[t].pc = "loop"
         THEN [mode_weight_norms EXCEPT
                 ![ModeOrder[frame[t].i]] = Multiply(@, frame[t].x_norm)]
         ELSE mode_weight_norms
  /\ UNCHANGED <<mode_weights, instances>>

\* one statement of task t's call
StepCall(t) ==
  /\ frame[t].pc \in Running
  /\ frame' = [frame EXCEPT ![t] = Step(frame[t], mode_weights, mode_weight_norms)]
  /\ UNCHANGED <<mode_weights, mode_weight_norms, instances>>

\* message_handler, lines 149-160: the result is unpacked, or the exception
\* caught and the fallback values set
Finish(t) ==
  /\ Ended(frame[t])
  /\ frame' = [frame EXCEPT ![t] =
       IF frame[t].pc = "returned"
         THEN [frame[t] EXCEPT !.key = frame[t].ret.full_name,
                               !.key_confidence = frame[t].ret.correlation,
                               !.estimates = frame[t].ret.all_estimates,
                               !.pc = "handled"]
         ELSE [frame[t] EXCEPT !.key = "Unknown",
                               !.key_confidence = Zero,
                               !.estimates = <<>>,
                               !.pc = "handled"]]
  /\ UNCHANGED <<mode_weights, mode_weight_norms, instances>>

\* message_handler returns
HandlerReturn(t) ==
  /\ frame[t].pc = "handled"
  /\ frame' = [frame EXCEPT ![t] = IdleFrame]
  /\ UNCHANGED <<mode_weights, mode_weight_norms, instances>>

NextConc ==
  \/ Singleton
  \/ \E t \in Tasks : \E x \in ConcInputs : Receive(t, x)
  \/ \E t \in Tasks : StepCall(t)
  \/ \E t \in Tasks : Finish(t)
  \/ \E t \in Tasks : HandlerReturn(t)

SpecConc == Init /\ [][NextConc]_vars

CallOver(f) == f.pc \in {"returned", "raised", "handled"}

\* C9: with the table constructed, under every interleaving each call ends
\* as it would when run alone on its input against the constructed table, the
\* table is never written, and two calls on the same input end alike.
C9_CallsIndependent ==
  instances # {} =>
    /\ mode_weights = BuiltWeights
    /\ mode_weight_norms = BuiltNorms
    /\ \A t \in Tasks :
         CallOver(frame[t]) =>
           LET alone == CallEstimator(frame[t].x, BuiltWeights, BuiltNorms)
           IN  frame[t].ret = alone.ret /\ frame[t].exc = alone.exc
    /\ \A t, u \in Tasks :
         (CallOver(frame[t]) /\ CallOver(frame[u]) /\ frame[t].x = frame[u].x) =>
           (frame[t].ret = frame[u].ret /\ frame[t].exc = frame[u].exc)

\* t1 has returned its list while t2, on another valid input, is in the
\* middle of its loop over the modes
C9_Witness ==
  /\ frame["t1"].pc = "returned"
  /\ Len(frame["t1"].ret.all_estimates) = 7
  /\ frame["t2"].pc = "loop"
  /\ frame["t2"].i = 4
  /\ ValidInput(frame["t2"].x)
  /\ frame["t2"].x # frame["t1"].x

(***************************************************************************)
(* Ranking (specification SpecRank): line 88 onwards on a list of the 7    *)
(* estimates, in the order the loop appends them, whose correlations are   *)
(* drawn from a grid.                                                      *)
(***************************************************************************)
MaxCorr == 2

DrawnEstimate(mode, level) ==
  [mode         |-> mode,
   mode_simple  |-> ModeSimple(mode),
   key_index    |-> 0,
   key          |-> note_names_simple[1],
   correlation  |-> SqrtOfRatio(level * level, MaxCorr * MaxCorr),
   full_name    |-> FullName(note_names_simple[1], ModeSimple(mode)),
   coefficients |-> <<>>]

InitRank ==
  /\ mode_weights = BuiltWeights
  /\ mode_weight_norms = BuiltNorms
  /\ instances = {"key_estimator"}
  /\ \E levels \in [1..Len(ModeOrder) -> 0..MaxCorr] :
       frame = [t \in Tasks |->
                  IF t = "t1"
                    THEN [IdleFrame EXCEPT
                            !.pc = "sort",
                            !.all_estimates =
                              [i \in 1..Len(ModeOrder) |->
                                 DrawnEstimate(ModeOrder[i], levels[i])]]
                    ELSE IdleFrame]

NextRank == StepCall("t1")

SpecRank == InitRank /\ [][NextRank]_vars

\* the place of a mode in the declaration order
Declared(mode) == CHOOSE i \in 1..Len(ModeOrder) : ModeOrder[i] = mode

\* C10: after the sort, estimates of equal correlation stand in declaration
\* order, so the best guess among tied top modes is the one declared first.
C10_TiesKeepDeclarationOrder ==
  LET f == frame["t1"]
      e == f.all_estimates
  IN  /\ f.pc \in {"return", "returned"} =>
           \A i, j \in 1..Len(e) :
             (i < j /\ e[i].correlation = e[j].correlation) =>
               Declared(e[i].mode) < Declared(e[j].mode)
      /\ f.pc = "returned" =>
           \A i \in 1..Len(e) :
             ~Less(e[i].correlation, e[1].correlation) =>
               /\ Declared(e[1].mode) <= Declared(e[i].mode)
               /\ f.ret.full_name = e[1].full_name

\* dorian and locrian tie at the top, ionian is below them, and dorian is the
\* best guess returned
C10_Witness ==
  LET f == frame["t1"]
  IN  /\ f.pc = "returned"
      /\ f.ret.all_estimates[1].mode = "dorian"
      /\ f.ret.all_estimates[2].mode = "locrian"
      /\ f.ret.all_estimates[1].correlation = f.ret.all_estimates[2].correlation
      /\ f.ret.full_name = "C dorian"

====
